---- MODULE Spec2Model ----
(***************************************************************************)
(* Model of src/backend/backend_api.py: the multi-resort search pipeline   *)
(* (search -> resort_map_multiple -> explore_map_multiple -> post_graphql, *)
(* get_driving_time) and the date partitioner make_monthly_date_ranges.    *)
(*                                                                         *)
(* Representation of Python values                                         *)
(*   None (numeric fields)  : the integer None, outside every domain used  *)
(*   None (string fields)   : the string "None"                            *)
(*   missing / empty id     : the empty string ""                          *)
(*   'YYYY-MM-DD' string    : the tuple <<y, m, d>>                        *)
(*   datetime (midnight)    : the record [year, month, day]                *)
(*   ISO-8601 string        : the record [y, m, d, t |-> "T00:00:00.000Z"] *)
(*   driving time (minutes) : an integer number of TENTHS of a minute; the *)
(*                            routing provider's durations are multiples   *)
(*                            of 60 seconds, so duration / 60 is exact     *)
(***************************************************************************)
EXTENDS Integers, Sequences, FiniteSets, TLC

\* Python's None in a numeric field (lat, lon, driving time, thresholds).
None == -999999

\* Python's None in a string field.
NoneStr == "None"

(***************************************************************************)
(* Dates                                                                   *)
(***************************************************************************)

IsLeap(y) == (y % 4 = 0) /\ ((y % 100 # 0) \/ (y % 400 = 0))

DaysInMonth(y, m) ==
    IF m = 2 THEN (IF IsLeap(y) THEN 29 ELSE 28)
    ELSE IF m \in {4, 6, 9, 11} THEN 30 ELSE 31

\* datetime.strptime(s, "%Y-%m-%d"): the date string becomes a datetime at midnight.
Strptime(s) == [year |-> s[1], month |-> s[2], day |-> s[3]]

\* datetime < datetime
DtLess(a, b) ==
    \/ a.year < b.year
    \/ a.year = b.year /\ a.month < b.month
    \/ a.year = b.year /\ a.month = b.month /\ a.day < b.day

\* datetime <= datetime
DtLeq(a, b) == DtLess(a, b) \/ a = b

\* min(a, b) of two datetimes (Python returns the first of two equal values).
DtMin(a, b) == IF DtLess(b, a) THEN b ELSE a

\* dt + relativedelta(months=1): next calendar month, the day clamped to its length.
AddMonth(dt) ==
    LET y == IF dt.month = 12 THEN dt.year + 1 ELSE dt.year
        m == IF dt.month = 12 THEN 1 ELSE dt.month + 1
        dim == DaysInMonth(y, m)
    IN  [year |-> y, month |-> m, day |-> IF dt.day > dim THEN dim ELSE dt.day]

\* strftime("%Y-%m-%dT%H:%M:%S.000Z") of a midnight datetime.
Strftime(dt) == [y |-> dt.year, m |-> dt.month, d |-> dt.day, t |-> "T00:00:00.000Z"]

\* to_iso_date_range over two datetimes (ensure_dt leaves a datetime alone).
to_iso_date_range_dt(dt_start, dt_end) == <<Strftime(dt_start), Strftime(dt_end)>>

\* to_iso_date_range over two date strings (ensure_dt parses them).
to_iso_date_range(start_date, end_date) ==
    to_iso_date_range_dt(Strptime(start_date), Strptime(end_date))

\* The while loop of make_monthly_date_ranges, from current_date on.
RECURSIVE MonthlyLoop(_, _)
MonthlyLoop(current_date, end_date_dt) ==
    IF DtLess(current_date, end_date_dt)
    THEN LET next_month == AddMonth(current_date)
             range_end == DtMin(next_month, end_date_dt)
         IN  <<to_iso_date_range_dt(current_date, range_end)>>
                 \o MonthlyLoop(range_end, end_date_dt)
    ELSE <<>>

make_monthly_date_ranges(start_date, end_date) ==
    MonthlyLoop(Strptime(start_date), Strptime(end_date))

(***************************************************************************)
(* Reference data and the inputs the environment may supply                *)
(***************************************************************************)

\* The resort table (locations): the CSV's rows, in file order.  NaN is None / NoneStr.
locations == <<
    [resort |-> "Aspen", region |-> "Rockies", state |-> "CO",
     latitude |-> 3919, longitude |-> -10682,
     skiable_acres |-> 5500, vertical_drop |-> 4400, annual_snowfall |-> 300],
    [resort |-> "Vail", region |-> "Rockies", state |-> "CO",
     latitude |-> 3964, longitude |-> -10637,
     skiable_acres |-> 5300, vertical_drop |-> 3400, annual_snowfall |-> 350],
    [resort |-> "Zermatt", region |-> "Europe", state |-> NoneStr,
     latitude |-> 4602, longitude |-> 775,
     skiable_acres |-> None, vertical_drop |-> 7000, annual_snowfall |-> None] >>

\* An availability window as the upstream sends it.
Avail(s, e) == [startDate |-> s, endDate |-> e]

\* Home records the upstream may put in homeRecs (the `home` of one rec).  The same
\* id may come back with different fields, without an id, or without coordinates.
Catalogue == {
    [id |-> "h1", title |-> "Chalet", lat |-> 3920, lon |-> -10680,
     availabilitiesWithoutBookedDates |-> <<Avail(<<2025, 1, 1>>, <<2025, 1, 12>>)>>,
     petPreference |-> "YES", petHostingDetails |-> NoneStr, media |-> <<"thumb1">>],
    [id |-> "h1", title |-> "Chalet II", lat |-> None, lon |-> -10680,
     availabilitiesWithoutBookedDates |-> <<>>,
     petPreference |-> "NO", petHostingDetails |-> NoneStr, media |-> <<>>],
    [id |-> "h2", title |-> "Equator Hut", lat |-> 0, lon |-> -10650,
     availabilitiesWithoutBookedDates |->
         <<Avail(<<2025, 1, 20>>, <<2025, 1, 22>>), Avail(<<2025, 1, 21>>, <<2025, 1, 25>>)>>,
     petPreference |-> "MAYBE", petHostingDetails |-> "NO", media |-> <<"thumb2">>],
    [id |-> "", title |-> "No id", lat |-> 3930, lon |-> -10670,
     availabilitiesWithoutBookedDates |-> <<Avail(<<2025, 1, 1>>, <<2025, 1, 12>>)>>,
     petPreference |-> "YES", petHostingDetails |-> "YES", media |-> <<>>],
    [id |-> "h3", title |-> "Lodge", lat |-> 3950, lon |-> -10640,
     availabilitiesWithoutBookedDates |-> <<Avail(<<2025, 1, 1>>, <<2025, 1, 10>>)>>,
     petPreference |-> NoneStr, petHostingDetails |-> "YES", media |-> <<"thumb3">>] }

\* The homeRecs lists one upstream page may carry.
PageChoices == {<<>>} \cup {<<h>> : h \in Catalogue}

\* HTTP statuses and body shapes the upstream search API may answer with.
Statuses == {200, 500}
Bodies == {"data", "errors", "nonjson"}

\* |x|
Abs(x) == IF x < 0 THEN 0 - x ELSE x

\* The duration, in seconds, of the route the routing provider finds between a house
\* and a resort: a function of the two end points (a minute per hundredth of a
\* degree travelled north-south and east-west).
route_duration(resort_lat, resort_lon, house_lat, house_lon) ==
    60 * (Abs(house_lat - resort_lat) + Abs(house_lon - resort_lon))

\* The JSON body of one POST /api/search, with its Authorization header.
BaseReq == [auth |-> <<"Bearer", "tokA">>,
            startDate |-> <<2025, 1, 10>>, endDate |-> <<2025, 1, 20>>,
            regions |-> {"Rockies"}, resorts |-> {}, mileRange |-> 35,
            dateType |-> "flexible", minNights |-> 0,
            minSkiableAcres |-> None, minVerticalDrop |-> None,
            minAnnualSnowfall |-> None,
            numberOfPeople |-> 0, petsAllowed |-> FALSE]

Requests == {
    BaseReq,
    [BaseReq EXCEPT !.petsAllowed = TRUE, !.resorts = {"Vail"}],
    [BaseReq EXCEPT !.dateType = "exact", !.resorts = {"Vail"}],
    [BaseReq EXCEPT !.endDate = <<2025, 1, 10>>, !.resorts = {"Aspen"}],
    [BaseReq EXCEPT !.startDate = <<2025, 2, 10>>, !.endDate = <<2025, 1, 10>>,
                    !.resorts = {"Aspen"}],
    [BaseReq EXCEPT !.startDate = <<2025, 2, 10>>, !.endDate = <<2025, 1, 10>>,
                    !.resorts = {"Vail"}, !.dateType = "exact"],
    [BaseReq EXCEPT !.startDate = <<2025, 1, 31>>, !.endDate = <<2025, 3, 15>>,
                    !.regions = {}, !.minVerticalDrop = 5000],
    [BaseReq EXCEPT !.regions = {"Europe"}, !.minSkiableAcres = 1000],
    [BaseReq EXCEPT !.regions = {"Rockies"}, !.resorts = {"Zermatt"}],
    [BaseReq EXCEPT !.auth = <<>>],
    [BaseReq EXCEPT !.auth = <<"Bearer", "">>],
    [BaseReq EXCEPT !.auth = <<"Basic", "tokA">>],
    [BaseReq EXCEPT !.startDate = <<>>] }

\* Highest page index after which the upstream may still report hasMore.
MaxPage == 1

\* Most home records the upstream returns to one search, over all resorts and pages.
MaxListings == 3

(***************************************************************************)
(* Pure helpers of the pipeline                                            *)
(***************************************************************************)

\* Python truthiness of an optional number: None and 0 are falsy.
Truthy(x) == x # None /\ x # 0

\* Python truthiness of an optional string: None and "" are falsy.
TruthyStr(x) == x # NoneStr /\ x # ""

\* _get_token_from_request: the credential of a 'Bearer ' Authorization header.
get_token_from_request(auth) ==
    IF auth # <<>> /\ auth[1] = "Bearer" THEN auth[2] ELSE NoneStr

\* _build_headers that prefers the shared slot to the token it was handed.
build_headers_slot_first(token, box) == IF TruthyStr(box) THEN box ELSE token

\* _build_headers: the token sent in the authorization header.
build_headers(token, box) == IF TruthyStr(token) THEN token ELSE box

\* make_polygon, kept abstract: the octagon is a function of centre and radius.
make_polygon(lat, lon, distance_miles) ==
    [center_lat |-> lat, center_lon |-> lon, radius |-> distance_miles]

\* The petPreferences filter explore_map_once puts in the query variables.
pet_preferences(pets_allowed) == IF pets_allowed THEN <<"YES", "MAYBE">> ELSE <<>>

\* The date ranges explore_map_multiple sends with every page of one resort.
formatted_date_range(date_range, date_type) ==
    IF date_type = "flexible"
    THEN make_monthly_date_ranges(date_range[1], date_range[2])
    ELSE <<to_iso_date_range(date_range[1], date_range[2])>>

\* A threshold comparison that lets a missing (NaN) column value through.
AtLeast_nan_passes(value, minimum) == value = None \/ value >= minimum

\* A threshold filter of search: NaN (None) never satisfies >=.
AtLeast(value, minimum) == value # None /\ value >= minimum

\* The resort filters of search, applied to the resort table.
filter_resorts(data) ==
    LET Keep(row) ==
            /\ (data.regions # {} => row.region \in data.regions)
            /\ (data.resorts # {} => row.resort \in data.resorts)
            /\ ((data.minSkiableAcres # None /\ data.minSkiableAcres > 0)
                    => AtLeast(row.skiable_acres, data.minSkiableAcres))
            /\ ((data.minVerticalDrop # None /\ data.minVerticalDrop > 0)
                    => AtLeast(row.vertical_drop, data.minVerticalDrop))
            /\ ((data.minAnnualSnowfall # None /\ data.minAnnualSnowfall > 0)
                    => AtLeast(row.annual_snowfall, data.minAnnualSnowfall))
    IN  SelectSeq(locations, Keep)

\* post_graphql that raises on a failing status only, not on an `errors` field.
post_graphql_status_only(status, body) ==
    IF status >= 400
    THEN [ok |-> FALSE, error |-> IF body = "errors" THEN "RuntimeError" ELSE "HTTPError"]
    ELSE IF body = "nonjson" THEN [ok |-> FALSE, error |-> "TypeError"]
    ELSE [ok |-> TRUE, error |-> ""]

\* post_graphql: what one response makes of the call.
post_graphql(status, body) ==
    LET errs == (body = "errors")
    IN  IF status >= 400
        THEN [ok |-> FALSE, error |-> IF errs THEN "RuntimeError" ELSE "HTTPError"]
        ELSE IF errs THEN [ok |-> FALSE, error |-> "RuntimeError"]
        ELSE IF body = "nonjson" THEN [ok |-> FALSE, error |-> "TypeError"]
        ELSE [ok |-> TRUE, error |-> ""]

\* pet_skipped that looks at petPreference only.
pet_skipped_preference_only(h, pets_allowed) ==
    pets_allowed /\ h.petPreference = "NO"

\* The client-side pet post-filter of explore_map_multiple: is the home skipped?
pet_skipped(h, pets_allowed) ==
    pets_allowed /\ (h.petPreference = "NO" \/ h.petHostingDetails = "NO")

\* The row explore_map_multiple appends for one home.
make_row(h) ==
    [id |-> h.id, homeId |-> h.id, title |-> h.title, lat |-> h.lat, lon |-> h.lon,
     availabilitiesWithoutBookedDates |-> h.availabilitiesWithoutBookedDates,
     petPreference |-> h.petPreference, petHostingDetails |-> h.petHostingDetails,
     imageUrl |-> IF Len(h.media) > 0 THEN h.media[1] ELSE NoneStr]

\* The rows one page adds to all_rows.
RECURSIVE page_rows(_, _)
page_rows(recs, pets_allowed) ==
    IF recs = <<>> THEN <<>>
    ELSE (IF pet_skipped(Head(recs), pets_allowed) THEN <<>>
          ELSE <<make_row(Head(recs))>>)
             \o page_rows(Tail(recs), pets_allowed)

\* The tagging loop of resort_map_multiple over one resort's results.
tag_rows(results, row) ==
    [i \in 1..Len(results) |->
        LET r == results[i]
        IN  [id |-> r.id, homeId |-> r.homeId, title |-> r.title,
             lat |-> r.lat, lon |-> r.lon,
             availabilitiesWithoutBookedDates |-> r.availabilitiesWithoutBookedDates,
             petPreference |-> r.petPreference,
             petHostingDetails |-> r.petHostingDetails,
             imageUrl |-> r.imageUrl,
             resort |-> row.resort, state |-> row.state, region |-> row.region,
             resort_lat |-> row.latitude, resort_lon |-> row.longitude]]

\* result['driving_time_minutes'] = t
set_driving_time(r, t) ==
    [id |-> r.id, homeId |-> r.homeId, title |-> r.title,
     lat |-> r.lat, lon |-> r.lon,
     availabilitiesWithoutBookedDates |-> r.availabilitiesWithoutBookedDates,
     petPreference |-> r.petPreference, petHostingDetails |-> r.petHostingDetails,
     imageUrl |-> r.imageUrl,
     resort |-> r.resort, state |-> r.state, region |-> r.region,
     resort_lat |-> r.resort_lat, resort_lon |-> r.resort_lon,
     driving_time_minutes |-> t]

\* homes_dict[home_id] = result.copy(), with its 'resorts' and 'min_driving_time'.
new_home(r) ==
    [id |-> r.id, homeId |-> r.homeId, title |-> r.title,
     lat |-> r.lat, lon |-> r.lon,
     availabilitiesWithoutBookedDates |-> r.availabilitiesWithoutBookedDates,
     petPreference |-> r.petPreference, petHostingDetails |-> r.petHostingDetails,
     imageUrl |-> r.imageUrl,
     resort |-> r.resort, state |-> r.state, region |-> r.region,
     resort_lat |-> r.resort_lat, resort_lon |-> r.resort_lon,
     driving_time_minutes |-> r.driving_time_minutes,
     resorts |-> <<[resort |-> r.resort, state |-> r.state, region |-> r.region,
                    driving_time_minutes |-> r.driving_time_minutes]>>,
     min_driving_time |-> r.driving_time_minutes]

\* float('inf'), the sort key of an unknown driving time: above every known time.
Infinity == 1000000

\* get_driving_time whose except branch returns 0 minutes instead of None.
get_driving_time_zero_on_failure(api_key, route) ==
    IF ~api_key THEN None
    ELSE IF route = None THEN 0
    ELSE route \div 6

\* get_driving_time: route is the provider's duration in seconds, or None for any
\* failure (exception, malformed answer, no route); without an API key the
\* provider is never asked.
get_driving_time(api_key, route) ==
    IF ~api_key THEN None
    ELSE IF route = None THEN None
    ELSE route \div 6

\* Does the enrichment loop of resort_map_multiple call get_driving_time for result?
has_coordinates(result) == Truthy(result.lat) /\ Truthy(result.lon)

\* The entry a listing contributes to its home's `resorts` list.
resort_entry(result) ==
    [resort |-> result.resort, state |-> result.state, region |-> result.region,
     driving_time_minutes |-> result.driving_time_minutes]

\* Index of home_id in homes_dict (a dict in insertion order), 0 when absent.
dict_index(homes_dict, home_id) ==
    IF \E i \in 1..Len(homes_dict) : homes_dict[i].id = home_id
    THEN CHOOSE i \in 1..Len(homes_dict) : homes_dict[i].id = home_id
    ELSE 0

\* dedupe_step without the `home_id not in homes_dict` test: every listing with an
\* id becomes a home of its own.
dedupe_step_always_new(homes_dict, result) ==
    IF ~TruthyStr(result.id) THEN homes_dict
    ELSE Append(homes_dict, new_home(result))

\* dedupe_step whose minimum update forgets that the current minimum may be None.
dedupe_step_min_needs_known(homes_dict, result) ==
    LET home_id == result.id
        i == dict_index(homes_dict, home_id)
    IN  IF ~TruthyStr(home_id) THEN homes_dict
        ELSE IF i = 0
        THEN Append(homes_dict, new_home(result))
        ELSE LET home == homes_dict[i]
                 current_min == home.min_driving_time
                 t == result.driving_time_minutes
                 new_min == IF t # None /\ current_min # None /\ t < current_min
                            THEN t ELSE current_min
             IN  [homes_dict EXCEPT ![i] =
                     [home EXCEPT !.resorts = Append(@, resort_entry(result)),
                                  !.min_driving_time = new_min]]

\* dedupe_step without the `if not home_id: continue` test.
dedupe_step_keeps_missing_id(homes_dict, result) ==
    LET home_id == result.id
        i == dict_index(homes_dict, home_id)
    IN  IF i = 0
        THEN Append(homes_dict, new_home(result))
        ELSE LET home == homes_dict[i]
                 current_min == home.min_driving_time
                 t == result.driving_time_minutes
                 new_min == IF t # None /\ (current_min = None \/ t < current_min)
                            THEN t ELSE current_min
             IN  [homes_dict EXCEPT ![i] =
                     [home EXCEPT !.resorts = Append(@, resort_entry(result)),
                                  !.min_driving_time = new_min]]

\* One iteration of the deduplication loop of resort_map_multiple.
dedupe_step(homes_dict, result) ==
    LET home_id == result.id
        i == dict_index(homes_dict, home_id)
    IN  IF ~TruthyStr(home_id) THEN homes_dict
        ELSE IF i = 0
        THEN Append(homes_dict, new_home(result))
        ELSE LET home == homes_dict[i]
                 current_min == home.min_driving_time
                 t == result.driving_time_minutes
                 new_min == IF t # None /\ (current_min = None \/ t < current_min)
                            THEN t ELSE current_min
             IN  [homes_dict EXCEPT ![i] =
                     [home EXCEPT !.resorts = Append(@, resort_entry(result)),
                                  !.min_driving_time = new_min]]

\* The deduplication loop of resort_map_multiple over results_full.
RECURSIVE dedupe(_, _)
dedupe(results, homes_dict) ==
    IF results = <<>> THEN homes_dict
    ELSE dedupe(Tail(results), dedupe_step(homes_dict, Head(results)))

\* The key both sorts of resort_map_multiple use: the time, or inf when unknown.
sort_key(t) == IF t # None THEN t ELSE Infinity

\* x placed in a sorted list after every element whose key is not larger.
RECURSIVE insert_sorted(_, _, _)
insert_sorted(x, sorted, field) ==
    IF sorted = <<>> THEN <<x>>
    ELSE IF sort_key(x[field]) < sort_key(Head(sorted)[field])
         THEN <<x>> \o sorted
         ELSE <<Head(sorted)>> \o insert_sorted(x, Tail(sorted), field)

\* list.sort(key=...) on the given field: ascending and stable.
RECURSIVE stable_sort(_, _)
stable_sort(seq, field) ==
    IF seq = <<>> THEN <<>>
    ELSE insert_sorted(seq[Len(seq)],
                       stable_sort(SubSeq(seq, 1, Len(seq) - 1), field), field)

\* aggregate without the final sort of the homes.
aggregate_homes_unsorted(results) ==
    LET homes == dedupe(results, <<>>)
    IN  [i \in 1..Len(homes) |->
            [homes[i] EXCEPT !.resorts = stable_sort(@, "driving_time_minutes")]]

\* aggregate without the sort of each home's `resorts` list.
aggregate_resorts_unsorted(results) ==
    stable_sort(dedupe(results, <<>>), "min_driving_time")

\* resort_map_multiple after enrichment: deduplicate, sort each home's resorts,
\* sort the homes.
aggregate(results) ==
    LET homes == dedupe(results, <<>>)
        sorted_inside == [i \in 1..Len(homes) |->
            [homes[i] EXCEPT !.resorts = stable_sort(@, "driving_time_minutes")]]
    IN  stable_sort(sorted_inside, "min_driving_time")

\* overlaps with strict comparisons: windows that only touch the range are lost.
overlaps_strict(avail, search_start, search_end) ==
    /\ DtLess(Strptime(avail.startDate), search_end)
    /\ DtLess(search_start, Strptime(avail.endDate))

\* The overlap test of search on one availability window.
overlaps(avail, search_start, search_end) ==
    /\ DtLeq(Strptime(avail.startDate), search_end)
    /\ DtLeq(search_start, Strptime(avail.endDate))

\* f"{minutes:.1f} min", or "N/A" when the value is falsy (na).
format_distance(t) ==
    IF Truthy(t) THEN [na |-> FALSE, whole |-> t \div 10, tenth |-> t % 10]
    ELSE [na |-> TRUE, whole |-> 0, tenth |-> 0]

\* The availability windows of r that search keeps.
matching_availabilities(r, search_start, search_end) ==
    LET Match(avail) == overlaps(avail, search_start, search_end)
    IN  SelectSeq(r.availabilitiesWithoutBookedDates, Match)

PLACEHOLDER_IMAGE == "https://images.unsplash.com/photo-1518780664697-55e3ad937233?w=800&q=80"

\* The row search returns for one home.
format_row(r, matching) ==
    [id |-> r.homeId, name |-> r.title, resort |-> r.resort,
     resorts |-> IF r.resorts # <<>> THEN r.resorts
                 ELSE <<[resort |-> r.resort,
                         driving_time_minutes |-> r.driving_time_minutes]>>,
     distance |-> format_distance(r.driving_time_minutes),
     driveTime |-> r.driving_time_minutes,
     imageUrl |-> IF TruthyStr(r.imageUrl) THEN r.imageUrl ELSE PLACEHOLDER_IMAGE,
     lat |-> r.lat, lng |-> r.lon,
     availabilities |-> matching,
     petPreference |-> r.petPreference, petHostingDetails |-> r.petHostingDetails]

\* The formatting loop of search over the homes resort_map_multiple returned.
RECURSIVE format_results(_, _, _)
format_results(results, search_start, search_end) ==
    IF results = <<>> THEN <<>>
    ELSE LET r == Head(results)
             matching == matching_availabilities(r, search_start, search_end)
         IN  (IF Len(matching) > 0 THEN <<format_row(r, matching)>> ELSE <<>>)
                 \o format_results(Tail(results), search_start, search_end)

(***************************************************************************)
(* State                                                                   *)
(***************************************************************************)

VARIABLES
    pc,                     \* where the search handler is: idle, explore (paging),
                            \* enrich (all resorts explored), done
    data,                   \* the request being served (JSON body and auth header)
    token,                  \* search's local `token`
    resort_df,              \* the filtered resort table of the request
    ridx,                   \* resort_map_multiple: index of the resort being explored
    page,                   \* explore_map_multiple: `page`
    all_rows,               \* explore_map_multiple: `all_rows`
    results_full,           \* resort_map_multiple: `results_full`
    deduplicated_results,   \* what resort_map_multiple returned
    response,               \* what search returned to its caller
    upstream_log,           \* the upstream page requests sent, each with the answer
                            \* it got and with what token_box.access held when it
                            \* was sent, and the sleeps between them
    routing_log,            \* the get_driving_time calls made
    token_box,              \* token_box.access, the shared token slot
    OPENROUTESERVICE_API_KEY, \* is the routing API key configured?
    part                    \* a call of make_monthly_date_ranges and its result

vars == <<pc, data, token, resort_df, ridx, page, all_rows, results_full,
          deduplicated_results, response, upstream_log, routing_log, token_box,
          OPENROUTESERVICE_API_KEY, part>>

NoRequest == [auth |-> <<>>]

\* time.sleep(0.4) in the log of upstream traffic.
SleepEntry == [sent |-> [resort |-> "", page |-> -1], status |-> 0, body |-> "sleep",
               homeRecs |-> <<>>, hasMore |-> FALSE, box |-> ""]
NoResponse == [code |-> 0]
NoPart == [start_date |-> <<>>, end_date |-> <<>>, date_ranges |-> <<>>]

Init ==
    /\ pc = "idle"
    /\ data = NoRequest
    /\ token = NoneStr
    /\ resort_df = <<>>
    /\ ridx = 0
    /\ page = 0
    /\ all_rows = <<>>
    /\ results_full = <<>>
    /\ deduplicated_results = <<>>
    /\ response = NoResponse
    /\ upstream_log = <<>>
    /\ routing_log = <<>>
    /\ token_box = "tokEnv"
    /\ OPENROUTESERVICE_API_KEY \in BOOLEAN
    /\ part = NoPart

\* The number of home records the upstream has returned so far.
RECURSIVE received(_)
received(log) ==
    IF log = <<>> THEN 0 ELSE Len(Head(log).homeRecs) + received(Tail(log))

(***************************************************************************)
(* search, up to the call of resort_map_multiple                           *)
(***************************************************************************)
SearchStart ==
    /\ pc = "idle"
    /\ \E d \in Requests :
        LET tok == get_token_from_request(d.auth)
            df == filter_resorts(d)
        IN  /\ data' = d
            /\ token' = tok
            /\ IF ~TruthyStr(tok)
               THEN /\ response' = [code |-> 401, error |-> "Authentication required"]
                    /\ pc' = "done"
                    /\ UNCHANGED <<resort_df, ridx>>
               ELSE IF d.startDate = <<>> \/ d.endDate = <<>>
               THEN /\ response' = [code |-> 400,
                                    error |-> "Start date and end date are required"]
                    /\ pc' = "done"
                    /\ UNCHANGED <<resort_df, ridx>>
               ELSE IF df = <<>>
               THEN /\ response' = [code |-> 200, results |-> <<>>]
                    /\ pc' = "done"
                    /\ resort_df' = df
                    /\ UNCHANGED ridx
               ELSE /\ pc' = "explore"
                    /\ resort_df' = df
                    /\ ridx' = 1
                    /\ UNCHANGED response
    /\ UNCHANGED <<page, all_rows, results_full, deduplicated_results,
                   upstream_log, routing_log, token_box, OPENROUTESERVICE_API_KEY, part>>

\* The page explore_map_multiple asks for after `page`, skipping one.
next_page_skipping(page_no) == page_no + 2

\* The page explore_map_multiple asks for after `page` (page += 1).
next_page(page_no) == page_no + 1

(***************************************************************************)
(* One iteration of the page loop of explore_map_multiple, for the resort  *)
(* resort_map_multiple is at; the last page of a resort also runs the      *)
(* tagging loop of resort_map_multiple.                                    *)
(***************************************************************************)
ExplorePage ==
    /\ pc = "explore"
    /\ LET row == resort_df[ridx]
           request == [resort |-> row.resort, page |-> page,
                       token |-> build_headers(token, token_box),
                       polygon |-> make_polygon(row.latitude, row.longitude,
                                                data.mileRange),
                       dateRanges |-> formatted_date_range(
                                          <<data.startDate, data.endDate>>, data.dateType),
                       petPreferences |-> pet_preferences(data.petsAllowed),
                       totalGuests |-> data.numberOfPeople]
       IN  \E status \in Statuses, body \in Bodies, recs \in PageChoices,
              hasMore \in BOOLEAN :
            LET out == post_graphql(status, body)
                rows == all_rows \o page_rows(recs, data.petsAllowed)
                exchange == [sent |-> request, status |-> status, body |-> body,
                             homeRecs |-> recs, hasMore |-> hasMore,
                             box |-> token_box]
            IN  IF ~out.ok
                THEN /\ recs = <<>> /\ ~hasMore
                     /\ upstream_log' = Append(upstream_log, exchange)
                     /\ response' = [code |-> 500, error |-> out.error]
                     /\ pc' = "done"
                     /\ UNCHANGED <<ridx, page, all_rows, results_full>>
                ELSE /\ received(upstream_log) + Len(recs) <= MaxListings
                     /\ hasMore => page < MaxPage
                     /\ UNCHANGED response
                     /\ IF hasMore
                        THEN /\ upstream_log' =
                                    upstream_log \o <<exchange, SleepEntry>>
                             /\ page' = next_page(page)
                             /\ all_rows' = rows
                             /\ UNCHANGED <<pc, ridx, results_full>>
                        ELSE /\ upstream_log' = Append(upstream_log, exchange)
                             /\ results_full' = results_full \o tag_rows(rows, row)
                             /\ all_rows' = <<>>
                             /\ page' = 0
                             /\ IF ridx < Len(resort_df)
                                THEN /\ ridx' = ridx + 1
                                     /\ UNCHANGED pc
                                ELSE /\ pc' = "enrich"
                                     /\ UNCHANGED ridx
    /\ UNCHANGED <<data, token, resort_df, deduplicated_results, routing_log,
                   token_box, OPENROUTESERVICE_API_KEY, part>>

\* The "Add driving times" loop of resort_map_multiple.  fails[i] tells whether the
\* routing provider fails for row i (exception, malformed answer, no route).
add_driving_times(results, api_key, fails) ==
    [i \in 1..Len(results) |->
        set_driving_time(results[i],
            IF has_coordinates(results[i])
            THEN get_driving_time(api_key,
                     IF fails[i] THEN None
                     ELSE route_duration(results[i].resort_lat, results[i].resort_lon,
                                         results[i].lat, results[i].lon))
            ELSE None)]

\* The get_driving_time calls that loop makes, in order: the arguments, the row the
\* call was made for, whether it went out to the provider (http), and whether the
\* provider failed it.
driving_time_calls(results, api_key, fails) ==
    LET Called(i) == has_coordinates(results[i])
        rows == SelectSeq([i \in 1..Len(results) |-> i], Called)
    IN  [n \in 1..Len(rows) |->
            [resort_lat |-> results[rows[n]].resort_lat,
             resort_lon |-> results[rows[n]].resort_lon,
             house_lat |-> results[rows[n]].lat,
             house_lon |-> results[rows[n]].lon,
             row |-> rows[n], http |-> api_key, failed |-> fails[rows[n]]]]

(***************************************************************************)
(* The rest of resort_map_multiple once every resort is explored (driving  *)
(* times, deduplication, the two sorts) and the rest of search             *)
(* (availability filter, formatting, the 200 response).                    *)
(***************************************************************************)
Finish ==
    /\ pc = "enrich"
    /\ \E fails \in [1..Len(results_full) -> BOOLEAN] :
        /\ \A i \in 1..Len(results_full) :
              (~OPENROUTESERVICE_API_KEY \/ ~has_coordinates(results_full[i]))
                  => ~fails[i]
        /\ LET enriched == add_driving_times(results_full,
                                             OPENROUTESERVICE_API_KEY, fails)
               results == aggregate(enriched)
           IN  /\ results_full' = enriched
               /\ routing_log' = driving_time_calls(results_full,
                                                    OPENROUTESERVICE_API_KEY, fails)
               /\ deduplicated_results' = results
               /\ response' = [code |-> 200,
                               results |-> format_results(results,
                                               Strptime(data.startDate),
                                               Strptime(data.endDate))]
    /\ pc' = "done"
    /\ UNCHANGED <<data, token, resort_df, ridx, page, all_rows, upstream_log,
                   token_box, OPENROUTESERVICE_API_KEY, part>>

(***************************************************************************)
(* verify_otp, a concurrent request: a successful login overwrites the     *)
(* shared token slot.                                                      *)
(***************************************************************************)
VerifyOtp ==
    /\ token_box' = "tokFresh"
    /\ UNCHANGED <<pc, data, token, resort_df, ridx, page, all_rows, results_full,
                   deduplicated_results, response, upstream_log, routing_log,
                   OPENROUTESERVICE_API_KEY, part>>

Next == SearchStart \/ ExplorePage \/ Finish

\* One search request, from its arrival to its response.
Spec == Init /\ [][Next]_vars

\* The search request with logins going on beside it.
NextOtp == Next \/ VerifyOtp

\* Logins do not touch the routing provider: the API key is left unconfigured here.
InitOtp == Init /\ ~OPENROUTESERVICE_API_KEY

SpecOtp == InitOtp /\ [][NextOtp]_vars

(***************************************************************************)
(* make_monthly_date_ranges on its own, over a wide range of dates         *)
(***************************************************************************)

\* The date strings a caller may pass: every valid day of these days of the month.
DateYears == {2023, 2024}
DateDays == {1, 15, 28, 29, 30, 31}
DateStrings ==
    {s \in DateYears \X (1..12) \X DateDays : s[3] <= DaysInMonth(s[1], s[2])}

Partition ==
    /\ part = NoPart
    /\ \E s \in DateStrings, e \in DateStrings :
           part' = [start_date |-> s, end_date |-> e,
                    date_ranges |-> make_monthly_date_ranges(s, e)]
    /\ UNCHANGED <<pc, data, token, resort_df, ridx, page, all_rows, results_full,
                   deduplicated_results, response, upstream_log, routing_log,
                   token_box, OPENROUTESERVICE_API_KEY>>

NextDates == Partition

SpecDates == Init /\ [][NextDates]_vars

(***************************************************************************)
(* Properties                                                              *)
(***************************************************************************)

\* resort_map_multiple has returned and search has answered 200 with its rows.
Served == pc = "done" /\ response.code = 200 /\ resort_df # <<>>

\* The rows of results_full that carry the home id `id`.
Occurrences(id) == {i \in 1..Len(results_full) : results_full[i].id = id}

\* The distinct, present home ids among the raw listings.
HomeIds == {results_full[i].id : i \in 1..Len(results_full)} \ {""}

\* The positions of deduplicated_results that hold the home id `id`.
HomesWithId(id) ==
    {j \in 1..Len(deduplicated_results) : deduplicated_results[j].id = id}

\* The smallest element of a non-empty set of numbers.
Minimum(S) == CHOOSE x \in S : \A y \in S : x <= y

\* The first raw listing that carries the home id `id`.
FirstOccurrence(id) == results_full[Minimum(Occurrences(id))]

\* How often the entry e occurs in the list of entries seq.
CountIn(seq, e) == Cardinality({p \in 1..Len(seq) : seq[p] = e})

\* The `resorts` entry the raw listing at row i stands for.
EntryOf(i) ==
    [resort |-> results_full[i].resort, state |-> results_full[i].state,
     region |-> results_full[i].region,
     driving_time_minutes |-> results_full[i].driving_time_minutes]

\* C1: resort_map_multiple returns exactly one home per distinct home id; the home's
\* base fields are those of the first occurrence of the id in resort input order, and
\* its `resorts` list holds exactly one entry per occurrence of the id.
C1_OneHomePerId ==
    Served =>
        /\ Len(deduplicated_results) = Cardinality(HomeIds)
        /\ \A id \in HomeIds :
            /\ Cardinality(HomesWithId(id)) = 1
            /\ \A j \in HomesWithId(id) :
                LET home == deduplicated_results[j]
                    first == FirstOccurrence(id)
                IN  /\ \A k \in DOMAIN first : home[k] = first[k]
                    /\ Len(home.resorts) = Cardinality(Occurrences(id))
                    /\ \A i \in Occurrences(id) :
                          CountIn(home.resorts, EntryOf(i)) =
                              Cardinality({i2 \in Occurrences(id) :
                                              EntryOf(i2) = EntryOf(i)})

\* C1 witness: one home was listed near two different resorts, with different
\* fields and driving times, beside another home.
C1_Witness ==
    /\ Served
    /\ Len(deduplicated_results) = 2
    /\ \E j \in 1..Len(deduplicated_results) :
        /\ Len(deduplicated_results[j].resorts) = 2
        /\ deduplicated_results[j].resorts[1].resort
               # deduplicated_results[j].resorts[2].resort
        /\ \E i1, i2 \in Occurrences(deduplicated_results[j].id) :
              /\ i1 < i2
              /\ results_full[i1].title # results_full[i2].title
              /\ results_full[i1].driving_time_minutes
                     # results_full[i2].driving_time_minutes

\* The known driving times in a `resorts` list.
KnownTimes(resorts) ==
    {resorts[p].driving_time_minutes : p \in 1..Len(resorts)} \ {None}

\* C2: every home returned by resort_map_multiple has a non-empty `resorts` list, and
\* its min_driving_time is the minimum of the known driving times of that list, and
\* is unknown exactly when every entry's driving time is unknown.
C2_MinDrivingTime ==
    Served =>
        \A j \in 1..Len(deduplicated_results) :
            LET home == deduplicated_results[j]
                known == KnownTimes(home.resorts)
            IN  /\ home.resorts # <<>>
                /\ (home.min_driving_time = None) <=> (known = {})
                /\ known # {} =>
                      /\ home.min_driving_time \in known
                      /\ \A t \in known : home.min_driving_time <= t

\* C2 witness: a home arrived with a known time, then an unknown one, then a
\* smaller known one.
C2_Witness ==
    /\ Served
    /\ \E i1, i2, i3 \in 1..Len(results_full) :
        /\ i1 < i2 /\ i2 < i3
        /\ results_full[i1].id # ""
        /\ results_full[i2].id = results_full[i1].id
        /\ results_full[i3].id = results_full[i1].id
        /\ results_full[i1].driving_time_minutes # None
        /\ results_full[i2].driving_time_minutes = None
        /\ results_full[i3].driving_time_minutes # None
        /\ results_full[i3].driving_time_minutes
               < results_full[i1].driving_time_minutes

\* The home of deduplicated_results that a returned row was formatted from.
HomeOfRow(row) ==
    deduplicated_results[Minimum(HomesWithId(row.id))]

\* C3: the distance string of every SearchResult row is derived from the home's
\* min_driving_time: "N/A" exactly when it is unknown, otherwise the minimum driving
\* time over all of the home's resorts.
C3_DistanceFromMinimum ==
    Served =>
        \A n \in 1..Len(response.results) :
            LET row == response.results[n]
                home == HomeOfRow(row)
            IN  /\ row.distance.na <=> (home.min_driving_time = None)
                /\ ~row.distance.na =>
                      row.distance.whole * 10 + row.distance.tenth
                          = home.min_driving_time

\* Is driving time a placed no later than driving time b when sorting ascending
\* with unknown last?
InOrder(a, b) == (a = None => b = None) /\ ((a # None /\ b # None) => a <= b)

\* C4: the homes returned by resort_map_multiple are ordered ascending by
\* min_driving_time with every unknown after every known, and the rows search
\* returns keep that relative order.
C4_HomesSorted ==
    Served =>
        /\ \A i, j \in 1..Len(deduplicated_results) :
              i < j => InOrder(deduplicated_results[i].min_driving_time,
                               deduplicated_results[j].min_driving_time)
        /\ \A p, q \in 1..Len(response.results) :
              p < q => Minimum(HomesWithId(response.results[p].id))
                           < Minimum(HomesWithId(response.results[q].id))

\* C4 witness: three homes came back in the reverse of their arrival order, the
\* last with an unknown time, and all three are in the response.
C4_Witness ==
    /\ Served
    /\ Len(deduplicated_results) = 3
    /\ Len(response.results) = 3
    /\ deduplicated_results[1].min_driving_time
           < deduplicated_results[2].min_driving_time
    /\ deduplicated_results[3].min_driving_time = None
    /\ Minimum(Occurrences(deduplicated_results[1].id))
           > Minimum(Occurrences(deduplicated_results[2].id))
    /\ Minimum(Occurrences(deduplicated_results[2].id))
           > Minimum(Occurrences(deduplicated_results[3].id))

\* C5: the `resorts` list of every home returned by resort_map_multiple is ordered
\* ascending by driving_time_minutes, every unknown entry after every known one.
C5_ResortsSorted ==
    Served =>
        \A j \in 1..Len(deduplicated_results) :
            LET resorts == deduplicated_results[j].resorts
            IN  \A p, q \in 1..Len(resorts) :
                    p < q => InOrder(resorts[p].driving_time_minutes,
                                     resorts[q].driving_time_minutes)

\* C5 witness: one home arrived with an unknown time, then 73 minutes near Aspen,
\* then 17 minutes near Vail, and its list reads Vail 17, Aspen 73, unknown.
C5_Witness ==
    /\ Served
    /\ Len(results_full) = 3
    /\ results_full[1].driving_time_minutes = None
    /\ results_full[2].driving_time_minutes = 730
    /\ results_full[3].driving_time_minutes = 170
    /\ Len(deduplicated_results) = 1
    /\ LET resorts == deduplicated_results[1].resorts
       IN  /\ Len(resorts) = 3
           /\ resorts[1].resort = "Vail" /\ resorts[1].driving_time_minutes = 170
           /\ resorts[2].resort = "Aspen" /\ resorts[2].driving_time_minutes = 730
           /\ resorts[3].driving_time_minutes = None

\* Did the upstream page request logged at position n fail?
PageFailed(n) ==
    /\ upstream_log[n] # SleepEntry
    /\ \/ upstream_log[n].status \notin 200..299
       \/ upstream_log[n].body = "errors"

ReversedRange ==
    /\ pc # "idle"
    /\ TruthyStr(token)
    /\ data.startDate # <<>> /\ data.endDate # <<>>
    /\ DtLess(Strptime(data.endDate), Strptime(data.startDate))

\* C7: when startDate is after endDate, date partitioning fails with InvalidRange and
\* the failure reaches the caller before any upstream search request is issued, in
\* flexible and in exact mode.
C7_InvalidRangeBeforeUpstream ==
    ReversedRange =>
        /\ upstream_log = <<>>
        /\ pc = "done" => (response.code = 500 /\ response.error = "InvalidRange")

\* Is the window w (a pair of ISO timestamps) at most one calendar month long?
AtMostOneMonth(w) ==
    LET months == (w[2].y * 12 + w[2].m) - (w[1].y * 12 + w[1].m)
    IN  \/ months = 0 /\ w[1].d <= w[2].d
        \/ months = 1 /\ w[2].d <= w[1].d

\* The windows w start at start_date, each starts where the previous one ends, each
\* is at most a calendar month long, and the last one ends at end_date.
CoversRange(w, start_date, end_date) ==
    /\ Len(w) >= 1
    /\ w[1][1] = Strftime(Strptime(start_date))
    /\ \A i \in 2..Len(w) : w[i][1] = w[i - 1][2]
    /\ \A i \in 1..Len(w) : AtMostOneMonth(w[i])
    /\ w[Len(w)][2] = Strftime(Strptime(end_date))

\* C8: for every startDate on or before endDate (the two equal included),
\* make_monthly_date_ranges returns windows that start at startDate, are contiguous,
\* are each at most one calendar month long, and end at endDate.
C8_PartitionCoversRange ==
    (part # NoPart /\ DtLeq(Strptime(part.start_date), Strptime(part.end_date)))
        => CoversRange(part.date_ranges, part.start_date, part.end_date)

\* What the code does satisfy: the same for startDate strictly before endDate, and
\* no window at all otherwise.
PartitionOfProperRange ==
    part # NoPart =>
        IF DtLess(Strptime(part.start_date), Strptime(part.end_date))
        THEN CoversRange(part.date_ranges, part.start_date, part.end_date)
        ELSE part.date_ranges = <<>>

\* A 'YYYY-MM-DD' date as the number YYYYMMDD.
DayNumber(s) == s[1] * 10000 + s[2] * 100 + s[3]

\* The availability windows of home that touch or overlap the requested range.
WindowsInRange(home) ==
    LET InRange(a) ==
            /\ DayNumber(a.startDate) <= DayNumber(data.endDate)
            /\ DayNumber(a.endDate) >= DayNumber(data.startDate)
    IN  SelectSeq(home.availabilitiesWithoutBookedDates, InRange)

\* The rows of the response made from the home at position j.
RowsOfHome(j) ==
    {n \in 1..Len(response.results) :
        response.results[n].id = deduplicated_results[j].id}

\* C9: the availabilities of every SearchResult row are exactly the home's windows
\* with availStart <= searchEnd and availEnd >= searchStart, and a home is in the
\* results if and only if it has such a window.
C9_AvailabilityFilter ==
    Served =>
        /\ \A n \in 1..Len(response.results) :
              /\ HomesWithId(response.results[n].id) # {}
              /\ response.results[n].availabilities
                     = WindowsInRange(HomeOfRow(response.results[n]))
        /\ \A j \in 1..Len(deduplicated_results) :
              Cardinality(RowsOfHome(j)) =
                  IF WindowsInRange(deduplicated_results[j]) # <<>> THEN 1 ELSE 0

\* C9 witness: one home is returned with only the window that starts on the last
\* requested day, a second with a window that ends on the first requested day, and
\* a third, which has no window, is left out.
C9_Witness ==
    /\ Served
    /\ Len(deduplicated_results) = 3
    /\ Len(response.results) = 2
    /\ \E j \in 1..3 :
          deduplicated_results[j].availabilitiesWithoutBookedDates = <<>>
    /\ \E n \in 1..2 :
          /\ Len(HomeOfRow(response.results[n]).availabilitiesWithoutBookedDates) = 2
          /\ Len(response.results[n].availabilities) = 1
          /\ response.results[n].availabilities[1].startDate = data.endDate
    /\ \E n \in 1..2 :
          response.results[n].availabilities[1].endDate = data.startDate

\* The home records the upstream returned, over all pages, in the order received.
RECURSIVE Returned(_)
Returned(log) ==
    IF log = <<>> THEN <<>> ELSE Head(log).homeRecs \o Returned(Tail(log))

\* The titles of a list of home records or rows.
Titles(seq) == [i \in 1..Len(seq) |-> seq[i].title]

\* C10: with petsAllowed set, no returned home has petPreference "NO" or
\* petHostingDetails "NO", whatever the upstream sent; with petsAllowed not set, every
\* listing the upstream sent is kept.
C10_PetFilter ==
    Served =>
        IF data.petsAllowed
        THEN /\ \A n \in 1..Len(response.results) :
                   /\ response.results[n].petPreference # "NO"
                   /\ response.results[n].petHostingDetails # "NO"
             /\ \A i \in 1..Len(results_full) :
                   /\ results_full[i].petPreference # "NO"
                   /\ results_full[i].petHostingDetails # "NO"
        ELSE Titles(results_full) = Titles(Returned(upstream_log))

\* C10 witness: with petsAllowed set the upstream sent a home whose
\* petHostingDetails is "NO" on one page and an acceptable home on another, and only
\* the second is returned.
C10_Witness ==
    /\ Served
    /\ data.petsAllowed
    /\ Len(Returned(upstream_log)) = 2
    /\ \E i \in 1..2 : Returned(upstream_log)[i].petHostingDetails = "NO"
    /\ Len(response.results) = 1

\* Is this entry of upstream_log a page request (rather than a sleep)?
IsPageRequest(e) == e.body # "sleep"

\* The positions of upstream_log that hold page requests.
PageRequests == {n \in 1..Len(upstream_log) : IsPageRequest(upstream_log[n])}

\* C11: every upstream page request of a search, for every resort, carries the bearer
\* token of the search request itself, also when a login has overwritten
\* token_box.access since the search began; the shared slot is never what is sent.
C11_TokenCapturedOnce ==
    \A n \in PageRequests :
        /\ upstream_log[n].sent.token = data.auth[2]
        /\ upstream_log[n].sent.token = token

\* A login overwrote the slot between two page requests of one search, and the
\* search went on to send the later page.
C11_Witness ==
    \E m \in PageRequests, n \in PageRequests :
        /\ m < n
        /\ upstream_log[m].box = "tokEnv"
        /\ upstream_log[n].box = "tokFresh"
        /\ upstream_log[m].sent.resort = upstream_log[n].sent.resort
        /\ upstream_log[n].sent.token # "tokFresh"

\* The page request at position m and the one at position n went to the same resort
\* with the same polygon and the same list of date ranges.
SameSearchArea(m, n) ==
    /\ upstream_log[m].sent.resort = upstream_log[n].sent.resort
    /\ upstream_log[m].sent.polygon = upstream_log[n].sent.polygon
    /\ upstream_log[m].sent.dateRanges = upstream_log[n].sent.dateRanges

\* C12: for one resort the pages are requested in the order 0, 1, 2, ..., each once;
\* page n+1 is requested exactly when the answer to page n reported hasMore, after a
\* sleep, with the polygon and the date ranges of page n; the first answer without
\* hasMore ends the resort, and the next request (if any) is page 0 of another resort.
C12_PagesInOrder ==
    /\ \A n \in PageRequests :
        LET e == upstream_log[n]
        IN  /\ (n = 1 \/ (n > 1 /\ IsPageRequest(upstream_log[n - 1])))
                  => /\ e.sent.page = 0
                     /\ n > 1 => /\ ~upstream_log[n - 1].hasMore
                                 /\ upstream_log[n - 1].sent.resort # e.sent.resort
            /\ (n > 1 /\ ~IsPageRequest(upstream_log[n - 1]))
                  => /\ n > 2
                     /\ IsPageRequest(upstream_log[n - 2])
                     /\ upstream_log[n - 2].hasMore
                     /\ e.sent.page = upstream_log[n - 2].sent.page + 1
                     /\ SameSearchArea(n - 2, n)
            /\ e.hasMore
                  => /\ n < Len(upstream_log)
                     /\ upstream_log[n + 1] = SleepEntry
                     /\ \/ /\ n + 2 <= Len(upstream_log)
                              /\ IsPageRequest(upstream_log[n + 2])
                        \/ /\ n + 1 = Len(upstream_log)
                           /\ pc = "explore"
                           /\ page = e.sent.page + 1
                           /\ resort_df[ridx].resort = e.sent.resort
            /\ ~e.hasMore
                  => (n = Len(upstream_log) \/ IsPageRequest(upstream_log[n + 1]))
            /\ \A m \in PageRequests :
                  (m # n /\ upstream_log[m].sent.resort = e.sent.resort)
                      => upstream_log[m].sent.page # e.sent.page
    /\ \A n \in (1..Len(upstream_log)) \ PageRequests :
            /\ n > 1
            /\ IsPageRequest(upstream_log[n - 1])
            /\ upstream_log[n - 1].hasMore

\* One resort was read over two pages, and the search went on to the next resort.
C12_Witness ==
    /\ Len(upstream_log) >= 4
    /\ upstream_log[1].hasMore
    /\ upstream_log[2] = SleepEntry
    /\ IsPageRequest(upstream_log[3])
    /\ upstream_log[3].sent.page = 1
    /\ ~upstream_log[3].hasMore
    /\ IsPageRequest(upstream_log[4])
    /\ upstream_log[4].sent.page = 0
    /\ upstream_log[3].sent.dateRanges # <<>>

\* The get_driving_time calls made for the raw listing at row i.
CallsFor(i) == {n \in 1..Len(routing_log) : routing_log[n].row = i}

\* C13: every raw listing whose home latitude and longitude are both present (a
\* coordinate of 0 included) gets one get_driving_time call, with its own coordinates
\* and those of its resort; a listing goes without a call only when a coordinate is
\* missing.
C13_CalledForEveryLocatedListing ==
    Served =>
        \A i \in 1..Len(results_full) :
            LET r == results_full[i]
            IN  IF r.lat # None /\ r.lon # None
                THEN /\ Cardinality(CallsFor(i)) = 1
                     /\ \A n \in CallsFor(i) :
                            /\ routing_log[n].house_lat = r.lat
                            /\ routing_log[n].house_lon = r.lon
                            /\ routing_log[n].resort_lat = r.resort_lat
                            /\ routing_log[n].resort_lon = r.resort_lon
                ELSE /\ CallsFor(i) = {}
                     /\ r.driving_time_minutes = None

\* Does the raw listing at row i have a `resorts` entry in the home of its id?
HasEntry(i) ==
    \E j \in HomesWithId(results_full[i].id) :
        CountIn(deduplicated_results[j].resorts, EntryOf(i)) >= 1

\* C14: a get_driving_time call that fails, or that finds no API key, does not fail
\* the search: once a call has been made the search answers 200 with its results; the
\* listing of a failed call has driving time None, in its `resorts` entry too; no
\* listing is asked about twice; every other call gives its listing a known time; and
\* every listing with coordinates is still asked about.
C14_RoutingFailureIsNotFatal ==
    /\ (pc = "done" /\ routing_log # <<>>) => Served
    /\ Served =>
        /\ \A n \in 1..Len(routing_log) :
            LET c == routing_log[n]
                r == results_full[c.row]
            IN  /\ Cardinality(CallsFor(c.row)) = 1
                /\ (c.failed \/ ~c.http) => r.driving_time_minutes = None
                /\ (~c.failed /\ c.http) => r.driving_time_minutes # None
                /\ r.id # "" => HasEntry(c.row)
        /\ \A i \in 1..Len(results_full) :
              (results_full[i].lat \notin {None, 0} /\ results_full[i].lon \notin {None, 0})
                  => CallsFor(i) # {}

\* The provider failed one listing and answered another, and the search returned rows.
C14_Witness ==
    /\ Served
    /\ response.results # <<>>
    /\ \E m \in 1..Len(routing_log), n \in 1..Len(routing_log) :
          /\ m < n
          /\ routing_log[m].failed
          /\ routing_log[n].http /\ ~routing_log[n].failed
          /\ results_full[routing_log[m].row].driving_time_minutes = None
          /\ results_full[routing_log[n].row].driving_time_minutes # None

\* Does a resort whose column holds `value` pass the threshold `minimum`?  None or a
\* number that is not positive sets no threshold; a missing column value is below
\* every threshold that is set.
Passes(value, minimum) ==
    (minimum = None \/ minimum <= 0) \/ (value # None /\ value >= minimum)

\* The resorts the filters of the request d leave in the candidate set.
Candidates(d) ==
    {loc \in {locations[i] : i \in 1..Len(locations)} :
        /\ (d.regions = {} \/ loc.region \in d.regions)
        /\ (d.resorts = {} \/ loc.resort \in d.resorts)
        /\ Passes(loc.skiable_acres, d.minSkiableAcres)
        /\ Passes(loc.vertical_drop, d.minVerticalDrop)
        /\ Passes(loc.annual_snowfall, d.minAnnualSnowfall)}

\* The request search is working on is authenticated, has both dates, and its
\* filters leave no resort.
NoCandidate ==
    /\ pc # "idle"
    /\ TruthyStr(token)
    /\ data.startDate # <<>> /\ data.endDate # <<>>
    /\ Candidates(data) = {}

\* C15: when the region, resort-name and threshold filters leave no resort, search
\* answers with an empty result list at once: no upstream search request and no
\* get_driving_time call is made.
C15_NoCandidateNoTraffic ==
    NoCandidate =>
        /\ pc = "done"
        /\ response = [code |-> 200, results |-> <<>>]
        /\ upstream_log = <<>>
        /\ routing_log = <<>>
        /\ resort_df = <<>>

\* The only resort of the selected region has no acreage on record, so the acreage
\* threshold leaves nothing, and search has answered.
C15_Witness ==
    /\ NoCandidate
    /\ pc = "done"
    /\ data.minSkiableAcres # None
    /\ response.code = 200 /\ response.results = <<>>

\* The raw listings whose home id is missing (None or empty).
WithoutId == {i \in 1..Len(results_full) : results_full[i].id \in {NoneStr, ""}}

\* The number of `resorts` entries over all the homes of a list.
RECURSIVE ResortEntries(_)
ResortEntries(homes) ==
    IF homes = <<>> THEN 0 ELSE Len(Head(homes).resorts) + ResortEntries(Tail(homes))

\* C16: a raw listing without a home id is not among the homes resort_map_multiple
\* returns and adds no `resorts` entry to any home: the homes returned are as many as
\* the distinct present ids, and their `resorts` entries as many as the listings that
\* have an id.
C16_MissingIdDropped ==
    Served =>
        /\ \A j \in 1..Len(deduplicated_results) :
              /\ deduplicated_results[j].id \notin {NoneStr, ""}
              /\ \A i \in WithoutId :
                    deduplicated_results[j].title # results_full[i].title
        /\ Len(deduplicated_results) =
              Cardinality({results_full[i].id : i \in 1..Len(results_full)}
                              \ {NoneStr, ""})
        /\ ResortEntries(deduplicated_results) =
              Len(results_full) - Cardinality(WithoutId)
        /\ \A k \in 1..Len(response.results) :
              response.results[k].id \notin {NoneStr, ""}

\* A listing without an id came back between listings with one; the routing provider
\* was asked about it all the same, and it is not among the homes returned.
C16_Witness ==
    /\ Served
    /\ deduplicated_results # <<>>
    /\ \E i \in WithoutId :
          /\ \E n \in CallsFor(i) : routing_log[n].http
          /\ results_full[i].driving_time_minutes # None
          /\ i < Len(results_full)

====
